---- MODULE Spec2Model ----
(***************************************************************************)
(* Model of .github/workflows/run-evaluator.py: a linear script that reads *)
(* its command line, provisions a chrome driver, starts a driver server on *)
(* a fixed port and runs mdbook-slide-evaluator against it.                *)
(*                                                                         *)
(* Several invocations of the script (Procs) run on one host and share the *)
(* host's TCP port table.  A command-line token is modelled by the         *)
(* sequence of its "/"-separated segments: "/srv/book" is                  *)
(* <<"", "srv", "book">>, "book/html" is <<"book", "html">>, "--strict" is *)
(* <<"--strict">>.                                                         *)
(***************************************************************************)
EXTENDS Integers, Sequences, FiniteSets, TLC

(* ------------------------------ bounds -------------------------------- *)

\* longest list of extra option tokens on a command line
MaxExtra == 2

(* ------------------------ program constants --------------------------- *)

PORT == 4444

EVALUATOR == <<"mdbook-slide-evaluator">>

\* the invocations of the script running on the host
Procs == {1, 2}

(* -------------------- the host the script runs on --------------------- *)

\* working directory of the invoking shell (parts below the root)
CWD == <<"home", "ci">>

\* the one symbolic link of the host's file system: /home/ci/link -> /srv/real
SymlinkTarget(parts) ==
  IF parts = <<"home", "ci", "link">> THEN <<"srv", "real">> ELSE parts

\* path ChromeDriverManager().install() returns
DriverBinary == <<"", "home", "ci", ".wdm", "chromedriver">>

\* exit statuses of the evaluator: clean, violations found, killed by SIGSEGV
ReturnCodes == {0, 1, -11}

(* ----------------------------- pathlib -------------------------------- *)

RECURSIVE DropDots(_)
\* PurePosixPath parsing drops empty and "." segments
DropDots(segs) ==
  IF segs = <<>> THEN <<>>
  ELSE IF Head(segs) \in {"", "."} THEN DropDots(Tail(segs))
       ELSE <<Head(segs)>> \o DropDots(Tail(segs))

\* Path(token): the path object of a command-line string
Path(tok) ==
  [kind |-> "path",
   root |-> (Len(tok) >= 2 /\ tok[1] = ""),
   parts |-> DropDots(tok)]

RECURSIVE Walk(_, _)
\* realpath's walk: ".." pops (never above the root), a link is followed
Walk(cur, rest) ==
  IF rest = <<>> THEN cur
  ELSE IF Head(rest) = ".."
       THEN Walk(IF cur = <<>> THEN <<>> ELSE SubSeq(cur, 1, Len(cur) - 1),
                 Tail(rest))
       ELSE Walk(SymlinkTarget(Append(cur, Head(rest))), Tail(rest))

\* Path.resolve() with the ".." and link handling left out and no working
\* directory prepended: what passing the path on unresolved would do
Unresolved(p) == p

\* Path.resolve(): absolute, normalised, links followed
Resolve(p) ==
  [kind |-> "path",
   root |-> TRUE,
   parts |-> Walk(IF p.root THEN <<>> ELSE CWD, p.parts)]

\* a str element of the argument list
Str(tok) == [kind |-> "str", tok |-> tok]

\* os.fspath / str() of a list element, as subprocess passes it to exec
Fspath(e) ==
  IF e.kind = "str" THEN e.tok
  ELSE IF e.root
       THEN (IF e.parts = <<>> THEN <<"", "">> ELSE <<"">> \o e.parts)
       ELSE (IF e.parts = <<>> THEN <<".">> ELSE e.parts)

\* a token that names an absolute path
IsAbsolute(tok) == Len(tok) >= 2 /\ tok[1] = ""

(* --------------------------- command lines ---------------------------- *)

SCRIPT == <<"run-evaluator.py">>

BookTokens == {<<"book">>, <<"..", "book", "html">>, <<"", "srv", "book">>,
               <<"link", "html">>}

ViolationTokens == {<<"violations.json">>, <<".", "out", "..", "v.json">>,
                    <<"", "tmp", "v.json">>}

ExtraTokens == {<<"--strict">>, <<"--threshold=5">>}

RECURSIVE SeqsUpTo(_, _)
\* all sequences over S of length at most n
SeqsUpTo(S, n) ==
  IF n = 0 THEN {<<>>}
  ELSE LET shorter == SeqsUpTo(S, n - 1)
       IN shorter \cup {Append(s, x) : s \in shorter, x \in S}

\* sys.argv of the invocation under study: too few tokens, or a book
\* directory, a violations file and up to MaxExtra extra options
ArgLists ==
  {<<SCRIPT>>}
  \cup {<<SCRIPT, b>> : b \in BookTokens}
  \cup {<<SCRIPT, b, v>> \o e :
          b \in BookTokens, v \in ViolationTokens,
          e \in SeqsUpTo(ExtraTokens, MaxExtra)}

\* sys.argv of the other invocations on the host
OtherArgLists ==
  {<<SCRIPT, <<"book">>, <<"violations.json">>>>,
   <<SCRIPT, <<"book">>, <<"violations.json">>, <<"--strict">>>>}

(* ------------------------------- state -------------------------------- *)

VARIABLES
  argv,             \* sys.argv of each invocation
  pc,               \* where each invocation stands in the script
  exitStatus,       \* exit status of a finished invocation, -1 while it runs
  failedAt,         \* stage whose unhandled exception ended the invocation
  BOOK_DIRECTORY,   \* line 15
  VIOLATIONS_FILE,  \* line 16
  EXTRA_OPTIONS,    \* line 17
  chrome_driver,    \* line 25
  servicePort,      \* port the driver server was asked to bind, 0 before
  server,           \* each invocation's driver server process
  driver,           \* line 27: whose server the returned session is on
  listeners,        \* driver servers listening on PORT on this host
  SUBPROCESS,       \* lines 30-41
  cmdline,          \* argument vector the evaluator was executed with
  evaluator,        \* each invocation's evaluator child process
  returncode,       \* exit status of the evaluator child
  conn,             \* outcome of the evaluator's first connection
  foundTaken,       \* the launch found PORT owned by another invocation
  log               \* stages attempted, in order

vars == <<argv, pc, exitStatus, failedAt, BOOK_DIRECTORY, VIOLATIONS_FILE,
          EXTRA_OPTIONS, chrome_driver, servicePort, server, driver,
          listeners, SUBPROCESS, cmdline, evaluator, returncode, conn,
          foundTaken, log>>

\* the value of a name that has not been assigned yet
Unset == [kind |-> "unset"]

\* the state in which the interpreter starts the script on command lines a
Started(a) ==
  /\ argv = a
  /\ pc = [p \in Procs |-> "arguments"]
  /\ exitStatus = [p \in Procs |-> -1]
  /\ failedAt = [p \in Procs |-> "none"]
  /\ BOOK_DIRECTORY = [p \in Procs |-> Unset]
  /\ VIOLATIONS_FILE = [p \in Procs |-> Unset]
  /\ EXTRA_OPTIONS = [p \in Procs |-> <<>>]
  /\ chrome_driver = [p \in Procs |-> <<>>]
  /\ servicePort = [p \in Procs |-> 0]
  /\ server = [p \in Procs |-> "none"]
  /\ driver = [p \in Procs |-> "none"]
  /\ listeners = {}
  /\ SUBPROCESS = [p \in Procs |-> <<>>]
  /\ cmdline = [p \in Procs |-> <<>>]
  /\ evaluator = [p \in Procs |-> "none"]
  /\ returncode = [p \in Procs |-> 0]
  /\ conn = [p \in Procs |-> "none"]
  /\ foundTaken = [p \in Procs |-> FALSE]
  /\ log = [p \in Procs |-> <<>>]

\* invocation 1 on any command line of ArgLists, the others on OtherArgLists
Init ==
  \E a \in ArgLists, o \in [Procs -> OtherArgLists] :
    Started([p \in Procs |-> IF p = 1 THEN a ELSE o[p]])

\* every invocation on a command line of OtherArgLists or on one that lacks
\* the violations file
FairInit ==
  \E a \in [Procs -> OtherArgLists \cup {<<SCRIPT, <<"book">>>>}] : Started(a)

(* ------------------------------ helpers ------------------------------- *)

\* an unhandled exception, or the end of the script, ends the process: its
\* driver server goes with it and the port is free again
ServerAfterExit(p) ==
  [server EXCEPT ![p] = IF @ \in {"starting", "accepting"} THEN "exited" ELSE @]

\* the URL of chromedriver's default port instead of the configured one
EndpointURLDefault(port) == <<"http:", "", "localhost:9515">>

\* f"http://localhost:{PORT}"
EndpointURL(port) == <<"http:", "", "localhost:" \o ToString(port)>>

\* lines 30-41 with the book directory appended before the extra options
CommandBookFirst(p) ==
  <<Str(EVALUATOR), Str(<<"--webdriver">>), Str(EndpointURL(PORT)),
    Str(<<"--export">>), Resolve(VIOLATIONS_FILE[p]),
    Resolve(BOOK_DIRECTORY[p])>>
  \o [i \in 1..Len(EXTRA_OPTIONS[p]) |-> Str(EXTRA_OPTIONS[p][i])]

\* lines 30-41: the SUBPROCESS list
Command(p) ==
  <<Str(EVALUATOR), Str(<<"--webdriver">>), Str(EndpointURL(PORT)),
    Str(<<"--export">>), Resolve(VIOLATIONS_FILE[p])>>
  \o [i \in 1..Len(EXTRA_OPTIONS[p]) |-> Str(EXTRA_OPTIONS[p][i])]
  \o <<Resolve(BOOK_DIRECTORY[p])>>

(* ------------------------- control flow -------------------------------- *)

\* the stage that follows a stage in the script's text
NextStage(stage) ==
  CASE stage = "arguments" -> "provision"
    [] stage = "provision" -> "launch"
    [] stage = "launch" -> "evaluator"
    [] stage = "evaluator" -> "waiting"

\* an exception caught and ignored: the script goes on with the next stage
ContinueAfterFailure(stage) == NextStage(stage)

\* an exception caught in a retry loop: the stage is attempted again
RetryAfterFailure(stage) == stage

\* no try/except anywhere: an exception raised by a stage ends the script
AfterFailure(stage) == "failed"

\* subprocess.run(..., check=True): a non-zero status raises
ExitStatusChecked(rc) == IF rc = 0 THEN 0 ELSE 1

\* line 44 is the last statement and its result is dropped: the interpreter
\* exits 0 whatever the child's returncode
ExitStatusAfterRun(rc) == 0

\* subprocess.Popen in place of subprocess.run: no wait for the child
ChildNotAwaited(p) == TRUE

\* subprocess.run returns only once the child has exited
ChildHasExited(p) == evaluator[p] = "exited"

\* a poll of the endpoint before line 44
ServerIsAccepting(p) == server[p] = "accepting"

\* nothing between line 28 and line 44 looks at the driver server
ReadyToInvoke(p) == TRUE

(* ------------------------------ actions ------------------------------- *)

\* lines 15-17: sys.argv[1], sys.argv[2], sys.argv[3:]; an index past the end
\* of sys.argv raises IndexError
ResolveArguments(p) ==
  /\ pc[p] = "arguments"
  /\ log' = [log EXCEPT ![p] = Append(@, "arguments")]
  /\ IF Len(argv[p]) < 3
     THEN /\ pc' = [pc EXCEPT ![p] = AfterFailure("arguments")]
          /\ failedAt' = [failedAt EXCEPT ![p] = "arguments"]
          /\ exitStatus' = [exitStatus EXCEPT ![p] = 1]
          /\ UNCHANGED <<BOOK_DIRECTORY, VIOLATIONS_FILE, EXTRA_OPTIONS>>
     ELSE /\ BOOK_DIRECTORY' = [BOOK_DIRECTORY EXCEPT ![p] = Path(argv[p][2])]
          /\ VIOLATIONS_FILE' = [VIOLATIONS_FILE EXCEPT ![p] = Path(argv[p][3])]
          /\ EXTRA_OPTIONS' =
               [EXTRA_OPTIONS EXCEPT ![p] = SubSeq(argv[p], 4, Len(argv[p]))]
          /\ pc' = [pc EXCEPT ![p] = "provision"]
          /\ UNCHANGED <<failedAt, exitStatus>>
  /\ UNCHANGED <<argv, chrome_driver, servicePort, server, driver, listeners,
                 SUBPROCESS, cmdline, evaluator, returncode, conn, foundTaken>>

\* line 25: ChromeDriverManager().install() returns the driver's path or
\* raises (no network, unsupported platform)
Provision(p) ==
  /\ pc[p] = "provision"
  /\ log' = [log EXCEPT ![p] = Append(@, "provision")]
  /\ \E installed \in BOOLEAN :
       IF installed
       THEN /\ chrome_driver' = [chrome_driver EXCEPT ![p] = DriverBinary]
            /\ pc' = [pc EXCEPT ![p] = "launch"]
            /\ UNCHANGED <<failedAt, exitStatus>>
       ELSE /\ pc' = [pc EXCEPT ![p] = AfterFailure("provision")]
            /\ failedAt' = [failedAt EXCEPT ![p] = "provision"]
            /\ exitStatus' = [exitStatus EXCEPT ![p] = 1]
            /\ UNCHANGED chrome_driver
  /\ UNCHANGED <<argv, BOOK_DIRECTORY, VIOLATIONS_FILE, EXTRA_OPTIONS,
                 servicePort, server, driver, listeners, SUBPROCESS, cmdline,
                 evaluator, returncode, conn, foundTaken>>

\* lines 27-28: webdriver.Chrome(service=Service(chrome_driver, port=PORT),
\* options=options) starts the driver server, asked to bind PORT, and returns
\* a session handle or raises.  The host lets one process listen on a port.
\* The script inspects neither the port before the call nor the handle after
\* it, so where the call's outcome is not fixed by the script both are kept:
\* on return the server may or may not be accepting yet, and with the port
\* already owned the call raises or returns a handle on the endpoint that is
\* listening there.
LaunchDriver(p) ==
  /\ pc[p] = "launch"
  /\ log' = [log EXCEPT ![p] = Append(@, "launch")]
  /\ servicePort' = [servicePort EXCEPT ![p] = PORT]
  /\ foundTaken' = [foundTaken EXCEPT ![p] = (listeners # {})]
  /\ \E returned \in BOOLEAN :
       IF returned
       THEN /\ pc' = [pc EXCEPT ![p] = "evaluator"]
            /\ UNCHANGED <<failedAt, exitStatus>>
            /\ IF listeners = {}
               THEN /\ listeners' = {p}
                    /\ \E s \in {"starting", "accepting"} :
                         server' = [server EXCEPT ![p] = s]
                    /\ driver' = [driver EXCEPT ![p] = "own"]
               ELSE /\ listeners' = listeners
                    /\ server' = [server EXCEPT ![p] = "exited"]
                    /\ driver' = [driver EXCEPT ![p] = "foreign"]
       ELSE /\ pc' = [pc EXCEPT ![p] = AfterFailure("launch")]
            /\ failedAt' = [failedAt EXCEPT ![p] = "launch"]
            /\ exitStatus' = [exitStatus EXCEPT ![p] = 1]
            /\ server' = [server EXCEPT ![p] = "exited"]
            /\ UNCHANGED <<listeners, driver>>
  /\ UNCHANGED <<argv, BOOK_DIRECTORY, VIOLATIONS_FILE, EXTRA_OPTIONS,
                 chrome_driver, SUBPROCESS, cmdline, evaluator, returncode,
                 conn>>

\* lines 30-44, up to the start of the child: the list is built and handed
\* to subprocess.run, which starts the evaluator or raises FileNotFoundError
InvokeEvaluator(p) ==
  /\ pc[p] = "evaluator"
  /\ ReadyToInvoke(p)
  /\ log' = [log EXCEPT ![p] = Append(@, "evaluator")]
  /\ SUBPROCESS' = [SUBPROCESS EXCEPT ![p] = Command(p)]
  /\ \E found \in BOOLEAN :
       IF found
       THEN /\ cmdline' = [cmdline EXCEPT ![p] =
                 [i \in 1..Len(Command(p)) |-> Fspath(Command(p)[i])]]
            /\ evaluator' = [evaluator EXCEPT ![p] = "running"]
            /\ pc' = [pc EXCEPT ![p] = "waiting"]
            /\ UNCHANGED <<failedAt, exitStatus, server, listeners>>
       ELSE /\ pc' = [pc EXCEPT ![p] = AfterFailure("evaluator")]
            /\ failedAt' = [failedAt EXCEPT ![p] = "evaluator"]
            /\ exitStatus' = [exitStatus EXCEPT ![p] = 1]
            /\ server' = ServerAfterExit(p)
            /\ listeners' = listeners \ {p}
            /\ UNCHANGED <<cmdline, evaluator>>
  /\ UNCHANGED <<argv, BOOK_DIRECTORY, VIOLATIONS_FILE, EXTRA_OPTIONS,
                 chrome_driver, servicePort, driver, returncode, conn,
                 foundTaken>>

\* the driver server started by line 27 begins to accept connections
DriverAccepts(p) ==
  /\ server[p] = "starting"
  /\ server' = [server EXCEPT ![p] = "accepting"]
  /\ UNCHANGED <<argv, pc, exitStatus, failedAt, BOOK_DIRECTORY,
                 VIOLATIONS_FILE, EXTRA_OPTIONS, chrome_driver, servicePort,
                 driver, listeners, SUBPROCESS, cmdline, evaluator,
                 returncode, conn, foundTaken, log>>

\* the evaluator's first connection goes to the --webdriver URL of its
\* command line (line 33) and reaches whichever server accepts there
EvaluatorConnects(p) ==
  /\ evaluator[p] = "running"
  /\ conn[p] = "none"
  /\ conn' = [conn EXCEPT ![p] =
       IF \E q \in listeners : /\ server[q] = "accepting"
                               /\ cmdline[p][3] = EndpointURL(servicePort[q])
       THEN (IF p \in listeners THEN "own" ELSE "foreign")
       ELSE "refused"]
  /\ UNCHANGED <<argv, pc, exitStatus, failedAt, BOOK_DIRECTORY,
                 VIOLATIONS_FILE, EXTRA_OPTIONS, chrome_driver, servicePort,
                 server, driver, listeners, SUBPROCESS, cmdline, evaluator,
                 returncode, foundTaken, log>>

\* the evaluator child ends, with any status; it may also never end
EvaluatorExits(p) ==
  /\ evaluator[p] = "running"
  /\ evaluator' = [evaluator EXCEPT ![p] = "exited"]
  /\ \E rc \in ReturnCodes : returncode' = [returncode EXCEPT ![p] = rc]
  /\ UNCHANGED <<argv, pc, exitStatus, failedAt, BOOK_DIRECTORY,
                 VIOLATIONS_FILE, EXTRA_OPTIONS, chrome_driver, servicePort,
                 server, driver, listeners, SUBPROCESS, cmdline, conn,
                 foundTaken, log>>

\* line 44 returns: subprocess.run has waited for the child; the script ends
WaitReturns(p) ==
  /\ pc[p] = "waiting"
  /\ evaluator[p] # "none"
  /\ ChildHasExited(p)
  /\ pc' = [pc EXCEPT ![p] = "done"]
  /\ exitStatus' = [exitStatus EXCEPT ![p] = ExitStatusAfterRun(returncode[p])]
  /\ server' = ServerAfterExit(p)
  /\ listeners' = listeners \ {p}
  /\ UNCHANGED <<argv, failedAt, BOOK_DIRECTORY, VIOLATIONS_FILE,
                 EXTRA_OPTIONS, chrome_driver, servicePort, driver,
                 SUBPROCESS, cmdline, evaluator, returncode, conn,
                 foundTaken, log>>

Next ==
  \E p \in Procs :
    \/ ResolveArguments(p)
    \/ Provision(p)
    \/ LaunchDriver(p)
    \/ InvokeEvaluator(p)
    \/ DriverAccepts(p)
    \/ EvaluatorConnects(p)
    \/ EvaluatorExits(p)
    \/ WaitReturns(p)

Spec == Init /\ [][Next]_vars

\* the interpreter runs the script's statements as long as they can run; the
\* evaluator and the driver server are under no such obligation
FairSpec ==
  /\ FairInit
  /\ [][Next]_vars
  /\ \A p \in Procs :
       WF_vars(ResolveArguments(p) \/ Provision(p) \/ LaunchDriver(p)
               \/ InvokeEvaluator(p) \/ WaitReturns(p))

(* ------------------------------ claims -------------------------------- *)

Stages == <<"arguments", "provision", "launch", "evaluator">>

\* number of times a stage was attempted
Attempts(p, stage) == Cardinality({i \in 1..Len(log[p]) : log[p][i] = stage})

\* C1: the executed evaluator command is exactly mdbook-slide-evaluator,
\* --webdriver, the endpoint URL, --export, the resolved export path, the extra
\* tokens verbatim and in order, then the resolved book directory last; its
\* length is 6 plus the number of extra tokens.
C1_CommandExact ==
  \A p \in Procs :
    evaluator[p] # "none" =>
      LET c == cmdline[p]
          n == Len(argv[p]) - 3
      IN /\ Len(c) = 6 + n
         /\ c[1] = <<"mdbook-slide-evaluator">>
         /\ c[2] = <<"--webdriver">>
         /\ c[3] = <<"http:", "", "localhost:4444">>
         /\ c[4] = <<"--export">>
         /\ c[5] = Fspath(Resolve(Path(argv[p][3])))
         /\ \A i \in 1..n : c[5 + i] = argv[p][3 + i]
         /\ c[Len(c)] = Fspath(Resolve(Path(argv[p][2])))

\* the evaluator was started with the extra options --strict --threshold=5
C1_Witness ==
  \E p \in Procs :
    /\ evaluator[p] # "none"
    /\ SubSeq(argv[p], 4, Len(argv[p])) = <<<<"--strict">>, <<"--threshold=5">>>>
    /\ cmdline[p][6] = <<"--strict">>
    /\ cmdline[p][7] = <<"--threshold=5">>

\* C2: the export path and the book directory passed to the evaluator are
\* absolute paths, whether the inputs were relative or absolute; a relative
\* input is never forwarded as it was given.
C2_PathsAbsolute ==
  \A p \in Procs :
    evaluator[p] # "none" =>
      LET c == cmdline[p]
      IN /\ IsAbsolute(c[5])
         /\ IsAbsolute(c[Len(c)])
         /\ ~IsAbsolute(argv[p][3]) => c[5] # argv[p][3]
         /\ ~IsAbsolute(argv[p][2]) => c[Len(c)] # argv[p][2]

\* the evaluator was started from a relative book directory and a relative
\* violations file
C2_Witness ==
  \E p \in Procs :
    /\ evaluator[p] # "none"
    /\ argv[p][2] = <<"..", "book", "html">>
    /\ argv[p][3] = <<".", "out", "..", "v.json">>
    /\ cmdline[p][5] = <<"", "home", "ci", "v.json">>
    /\ cmdline[p][Len(cmdline[p])] = <<"", "home", "book", "html">>

\* C3: with the book directory omitted, or only the violations file omitted,
\* the invocation fails at argument resolution and no provisioning call, no
\* driver server launch and no evaluator launch ever occurs.
C3_MissingArgumentFailsFirst ==
  \A p \in Procs :
    Len(argv[p]) < 3 =>
      /\ pc[p] \in {"arguments", "failed"}
      /\ log[p] \in {<<>>, <<"arguments">>}
      /\ chrome_driver[p] = <<>>
      /\ servicePort[p] = 0
      /\ server[p] = "none"
      /\ evaluator[p] = "none"
      /\ pc[p] = "failed" => failedAt[p] = "arguments" /\ exitStatus[p] = 1

\* an invocation given a book directory and no violations file has failed
C3_Witness ==
  \E p \in Procs :
    /\ Len(argv[p]) = 2
    /\ pc[p] = "failed"
    /\ failedAt[p] = "arguments"

\* C4: whenever the driver launch was reached the server was asked to bind
\* port 4444, whatever the extra options, and the --webdriver value given to
\* the evaluator is http://localhost:4444, the port the server was asked for.
C4_FixedPort ==
  \A p \in Procs :
    /\ Attempts(p, "launch") > 0 => servicePort[p] = 4444
    /\ evaluator[p] # "none" =>
         /\ cmdline[p][3] = <<"http:", "", "localhost:4444">>
         /\ cmdline[p][3] =
              <<"http:", "", "localhost:" \o ToString(servicePort[p])>>

\* the evaluator runs, started from a command line with MaxExtra extra options
C4_Witness ==
  \E p \in Procs :
    /\ evaluator[p] = "running"
    /\ Len(EXTRA_OPTIONS[p]) = MaxExtra
    /\ servicePort[p] = PORT

\* C5: of two concurrent invocations, the one whose launch finds the port
\* owned by the other fails at the driver launch and never starts its
\* evaluator; no two driver servers own the port at once; its evaluator never
\* connects to the other invocation's driver server.
C5_SecondFailsAtBind ==
  /\ Cardinality(listeners) <= 1
  /\ \A p \in Procs :
       foundTaken[p] =>
         /\ pc[p] = "failed"
         /\ failedAt[p] = "launch"
         /\ evaluator[p] = "none"
         /\ conn[p] # "foreign"

\* C6: once the evaluator has been started the invocation never fails, and
\* it ends with exit status 0 whatever status the evaluator ended with.
C6_ExitStatusIgnored ==
  \A p \in Procs :
    /\ evaluator[p] # "none" => pc[p] \in {"waiting", "done"}
    /\ evaluator[p] # "none" => failedAt[p] = "none"
    /\ pc[p] = "done" => exitStatus[p] = 0

\* an invocation has ended after its evaluator was killed by a signal
C6_Witness ==
  \E p \in Procs :
    /\ pc[p] = "done"
    /\ returncode[p] = -11
    /\ exitStatus[p] = 0

\* C7: the invocation never completes while its evaluator is running, it
\* completes once the evaluator has exited, and as long as the evaluator runs
\* it stays waiting.
C7_WaitsForEvaluator ==
  \A p \in Procs :
    /\ [](pc[p] = "done" => evaluator[p] = "exited")
    /\ [](evaluator[p] = "running" => pc[p] = "waiting")
    /\ (evaluator[p] = "exited") ~> (pc[p] = "done")

\* an invocation has completed after its evaluator exited
C7_Witness ==
  \E p \in Procs :
    /\ pc[p] = "done"
    /\ evaluator[p] = "exited"
    /\ log[p] = Stages

\* C8: the stages are attempted in the order arguments, provisioning, driver
\* launch, evaluator launch, each only after the one before it succeeded; a
\* failed stage is the last one attempted.
C8_StagesInOrder ==
  \A p \in Procs :
    /\ Len(log[p]) <= Len(Stages)
    /\ log[p] = SubSeq(Stages, 1, Len(log[p]))
    /\ failedAt[p] # "none" =>
         /\ pc[p] = "failed"
         /\ log[p][Len(log[p])] = failedAt[p]
    /\ Attempts(p, "launch") > 0 => chrome_driver[p] = DriverBinary
    /\ Attempts(p, "evaluator") > 0 => driver[p] # "none"

\* the driver launch failed after provisioning succeeded
C8_Witness ==
  \E p \in Procs :
    /\ failedAt[p] = "launch"
    /\ log[p] = <<"arguments", "provision", "launch">>
    /\ evaluator[p] = "none"

\* C9: provisioning, the driver launch and the evaluator launch are each
\* attempted at most once, also after a failure, and an invocation whose
\* arguments resolved makes exactly one provisioning call.
C9_NoRetries ==
  \A p \in Procs :
    /\ \A i \in 1..Len(Stages) : Attempts(p, Stages[i]) <= 1
    /\ (pc[p] \notin {"arguments", "provision"} /\ failedAt[p] # "arguments")
         => Attempts(p, "provision") = 1

\* provisioning failed and was attempted once
C9_Witness ==
  \E p \in Procs :
    /\ failedAt[p] = "provision"
    /\ pc[p] = "failed"
    /\ Attempts(p, "provision") = 1

====
